---- MODULE Spec2Model ----
(***************************************************************************)
(* Model of the RPA plugin (src/plugins/rpa_plugin.py): the in-memory      *)
(* registries `tasks` and `results`, the HTTP handlers create_task,        *)
(* execute_task, get_task_status, get_task_result, and the background      *)
(* coroutine run_automation, cut at its await points (the code runs on a   *)
(* single asyncio event loop, so the code between two awaits is atomic;    *)
(* the awaits that set up the session touch only the coroutine's own       *)
(* locals and form one step).                                              *)
(*                                                                         *)
(* A task identifier "task_N" is modelled by the number N.  Python's None  *)
(* is modelled by the string "None".                                       *)
(***************************************************************************)
EXTENDS Integers, Sequences, FiniteSets, TLC

VARIABLES tasks, results, runs

vars == <<tasks, results, runs>>

\* ------------------------------------------------------------------ bounds
MaxTasks == 2          \* create_task is called at most MaxTasks times
MaxRuns  == 2          \* execute_task launches at most MaxRuns coroutines

\* Text contents a page may show when an extract step reads it.
Texts == {"a"}

\* Identifiers a caller may pass: the registered ones and one that never is.
CallerIds == 1..(MaxTasks + 1)

\* ------------------------------------------------------- step dictionaries
\* step.get("result") of a step that carries no "result" key
NoResult == [key |-> "None", val |-> <<>>]

StepSpec(type, by) == [type |-> type, by |-> by, result |-> NoResult]

\* Task definitions the callers register (TaskConfig bodies).  The two names
\* differ only in case.
DefLogin ==
    [name |-> "login", target_url |-> "url",
     steps |-> << StepSpec("click", "selector") >>]

DefScrape ==
    [name |-> "Login", target_url |-> "None",
     steps |-> << StepSpec("extract", "selector"),
                  StepSpec("screenshot", "None") >>]

Defs == {DefLogin, DefScrape}

\* ------------------------------------------------------------- responses
NoSteps == [present |-> FALSE, steps |-> <<>>]

Response(op, id, code, st, progress, message, result, error) ==
    [op |-> op, task |-> id, code |-> code, status |-> st,
     progress |-> progress, message |-> message,
     result |-> result, error |-> error]

NotFound(op, id, detail) ==
    Response(op, id, 404, "None", -1, detail, NoSteps, "None")

\* ---------------------------------------------------------------- Init
Init ==
    /\ tasks = <<>>
    /\ results = <<>>
    /\ runs = <<>>

\* ------------------------------------------------------- registry helpers
\* d with key k bound to v (dict item assignment)
Put(d, k, v) == [x \in (DOMAIN d) \cup {k} |-> IF x = k THEN v ELSE d[x]]

\* an identifier counted from the stored results instead of the tasks
NewTaskIdFromResults(ts) == Cardinality(DOMAIN results) + 1

\* task_id = f"task_{len(tasks) + 1}"
NewTaskId(ts) == Cardinality(DOMAIN ts) + 1

\* results[task_id] = {"result": {"steps": task["steps"]}}: the stored value
\* holds a reference to the task's own step list, not a copy of it.
SuccessEntry == [result |-> "steps", error |-> "None"]

\* results[task_id] = {"error": str(e)}
ErrorEntry(e) == [result |-> "None", error |-> e]

StoreSuccess(res, id) == Put(res, id, SuccessEntry)

StoreError(res, id, e) == Put(res, id, ErrorEntry(e))

\* results[task_id].get("result"), read through the reference it holds
ResultOf(ts, res, id) ==
    IF res[id].result = "steps"
    THEN [present |-> TRUE, steps |-> ts[id].steps]
    ELSE NoSteps

\* "completed" if results[task_id].get("error") is None else "failed"
StatusValue(res, id) == IF res[id].error = "None" THEN "completed" ELSE "failed"

\* a get_task_status whose message for a failed task is a fixed text
StatusOfFixedMessage(ts, res, id) ==
    IF id \notin DOMAIN ts
    THEN NotFound("status", id, "task not found")
    ELSE IF id \in DOMAIN res
    THEN Response("status", id, 200, StatusValue(res, id), 100,
                  IF StatusValue(res, id) = "completed"
                  THEN "Task execution completed" ELSE "Task execution failed",
                  NoSteps, "None")
    ELSE Response("status", id, 200, "running", 50,
                  "Task is still running", NoSteps, "None")

\* body of get_task_status
StatusOf(ts, res, id) ==
    IF id \notin DOMAIN ts
    THEN NotFound("status", id, "task not found")
    ELSE IF id \in DOMAIN res
    THEN Response("status", id, 200, StatusValue(res, id), 100,
                  IF StatusValue(res, id) = "completed"
                  THEN "Task execution completed" ELSE res[id].error,
                  NoSteps, "None")
    ELSE Response("status", id, 200, "running", 50,
                  "Task is still running", NoSteps, "None")

\* body of get_task_result
TaskResultOf(ts, res, id) ==
    IF id \notin DOMAIN ts
    THEN NotFound("result", id, "task not found")
    ELSE IF id \notin DOMAIN res
    THEN NotFound("result", id, "results not found")
    ELSE Response("result", id, 200, StatusValue(res, id), -1, "None",
                  ResultOf(ts, res, id), res[id].error)

\* ---------------------------------------------------------- HTTP handlers
\* The handlers' return values are functions of the registries: the
\* operators CreateResponse, ExecuteResponse, StatusOf and TaskResultOf give
\* what a call made in the current state returns.

\* return {"task_id": task_id, "status": "created"}
CreateResponse(ts) ==
    Response("create", NewTaskId(ts), 200, "created", -1, "None", NoSteps, "None")

\* an identifier derived from the name instead of the count: a second
\* definition of the same lower-cased name replaces the first
create_task_keyed_by_name(d) ==
    LET Key(n) == IF n = "Login" THEN "login" ELSE n
        same   == {id \in DOMAIN tasks : Key(tasks[id].name) = Key(d.name)}
    IN  /\ Cardinality(DOMAIN tasks) < MaxTasks
        /\ tasks' = Put(tasks, IF same = {} THEN NewTaskId(tasks)
                                ELSE CHOOSE id \in same : TRUE, d)
        /\ UNCHANGED <<results, runs>>

create_task(d) ==
    /\ Cardinality(DOMAIN tasks) < MaxTasks
    /\ tasks' = Put(tasks, NewTaskId(tasks), d)
    /\ UNCHANGED <<results, runs>>

\* a coroutine object of run_automation(task_id), not yet started
\* `element` is the coroutine's local of that name: unbound until an
\* extract-by-selector step binds it to query_selector's answer.
NewRun(id) == [task |-> id, pc |-> "start", i |-> 0, browser |-> "none",
               element |-> "unbound"]

\* what execute_task returns
ExecuteResponse(ts, id) ==
    IF id \notin DOMAIN ts
    THEN NotFound("execute", id, "task not found")
    ELSE Response("execute", id, 200, "running", 0,
                  "Task execution started", NoSteps, "None")

\* an execute_task without the `task_id not in tasks` check
execute_task_unchecked(id) ==
    /\ Len(runs) < MaxRuns
    /\ runs' = Append(runs, NewRun(id))
    /\ UNCHANGED <<tasks, results>>

execute_task(id) ==
    IF id \notin DOMAIN tasks
    THEN UNCHANGED <<tasks, results, runs>>
    ELSE /\ Len(runs) < MaxRuns
         /\ runs' = Append(runs, NewRun(id))
         /\ UNCHANGED <<tasks, results>>

\* what get_task returns: {"id": task_id, **tasks[task_id]}
TaskOf(ts, id) ==
    IF id \notin DOMAIN ts
    THEN [code |-> 404, id |-> id, found |-> FALSE, task |-> <<>>]
    ELSE [code |-> 200, id |-> id, found |-> TRUE, task |-> ts[id]]

\* get_task, get_task_status and get_task_result only read
get_task(id) ==
    /\ TaskOf(tasks, id).id = id
    /\ UNCHANGED <<tasks, results, runs>>

get_task_status(id) ==
    /\ StatusOf(tasks, results, id).op = "status"
    /\ UNCHANGED <<tasks, results, runs>>

get_task_result(id) ==
    /\ TaskResultOf(tasks, results, id).op = "result"
    /\ UNCHANGED <<tasks, results, runs>>

\* ------------------------------------------------------- run_automation
\* str(e) of the exception a failing provider call raises
StepError(step) ==
    CASE step.type = "navigate"   -> "navigate failed"
      [] step.type = "click"      -> "click failed"
      [] step.type = "type"       -> "fill failed"
      [] step.type = "select"     -> "select failed"
      [] step.type = "wait"       -> "wait failed"
      [] step.type = "screenshot" -> "screenshot failed"
      [] OTHER                    -> "extract failed"

\* What the browser may answer to the provider calls of one step: the call
\* raises, or returns; an extract finds no element or finds one showing v.
StepOutcomes(step) ==
    {[kind |-> k, val |-> "None"] : k \in {"raise", "raise_exit"}} \cup
    IF step.type = "extract"
    THEN {[kind |-> "nomatch", val |-> "None"]}
         \cup {[kind |-> "match", val |-> v] : v \in Texts}
    ELSE {[kind |-> "ok", val |-> "None"]}

\* every answer some step may get
StepAnswers ==
    UNION {StepOutcomes(StepSpec(t, "selector")) : t \in {"click", "extract"}}

\* One iteration of `for step in task["steps"]` that does not raise: the
\* step dictionary afterwards.  Only screenshot and a matching extract
\* assign step["result"]; no branch removes an existing "result" key.
StepEffect(step, out) ==
    CASE step.type = "screenshot" ->
           [step EXCEPT !.result = [key |-> "screenshot", val |-> <<"img">>]]
      [] step.type = "extract" /\ step.by = "selector" /\ out.kind = "match" ->
           [step EXCEPT !.result = [key |-> "text", val |-> <<out.val>>]]
      [] step.type = "extract" /\ step.by = "xpath" /\ out.kind = "match" ->
           [step EXCEPT !.result = [key |-> "texts", val |-> <<out.val>>]]
      [] OTHER -> step

\* element = await page.query_selector(step["selector"])
Bind(run, step, ans) ==
    IF step.type = "extract" /\ step.by = "selector"
    THEN [run EXCEPT !.element = IF ans.kind = "match" THEN "handle" ELSE "None"]
    ELSE run

\* Position after page setup or after step i: the next step, or
\* `await browser.close()` when the loop is exhausted.
NextPos(run, n, i) ==
    IF i < n THEN [run EXCEPT !.pc = "step", !.i = i + 1]
             ELSE [run EXCEPT !.pc = "close", !.i = n + 1]

\* str(e) of the exception the provider call awaited at the run's position
\* raises when it fails
ErrorAt(ts, run) ==
    CASE run.pc = "start"  -> "launch failed"
      [] run.pc = "goto"   -> "goto failed"
      [] run.pc = "step"   -> StepError(ts[run.task].steps[run.i])
      [] run.pc = "close"  -> "close failed"
      [] OTHER             -> "playwright stop failed"

\* Answers of a provider call awaited inside `async with`: it returns, or it
\* raises and the context manager's __aexit__, which runs before the except
\* clause sees the exception, returns ("raise") or raises an exception of
\* its own that replaces the first ("raise_exit").  Nothing shared is
\* touched between the raise and the except clause, so both are one step.
Outcomes == {"ok", "raise", "raise_exit"}

\* an except clause that stores a fixed text instead of str(e)
CaughtGeneric(ts, run, out) == "automation failed"

\* The exception that reaches `except Exception as e`
Caught(ts, run, out) ==
    IF out = "raise_exit" THEN "playwright stop failed" ELSE ErrorAt(ts, run)

\* The coroutine once it has returned: its frame (the loop position, the
\* browser handle, the element) is gone.
Returned(run) ==
    [run EXCEPT !.pc = "done", !.i = 0, !.browser = "none",
                !.element = "unbound"]

\* an except clause too narrow for the exception: the coroutine ends with
\* the exception and stores nothing
ExceptClauseNarrow(r, out) ==
    /\ runs' = [runs EXCEPT ![r] = Returned(@)]
    /\ UNCHANGED <<tasks, results>>

\* except Exception as e: results[task_id] = {"error": str(e)}
ExceptClause(r, out) ==
    /\ runs' = [runs EXCEPT ![r] = Returned(@)]
    /\ results' = StoreError(results, runs[r].task, Caught(tasks, runs[r], out))
    /\ UNCHANGED tasks

\* task = tasks[task_id]; the session: async_playwright().__aenter__(),
\* chromium.launch(), browser.new_context(), context.new_page(); then
\* `if task.get("target_url")`.  The four calls touch nothing shared, so
\* they are one step; any of them may raise.
RunStart(r, out) ==
    /\ runs[r].pc = "start"
    /\ IF out = "ok"
       THEN /\ runs' = [runs EXCEPT ![r] =
                          IF tasks[@.task].target_url # "None"
                          THEN [@ EXCEPT !.pc = "goto", !.browser = "open"]
                          ELSE NextPos([@ EXCEPT !.browser = "open"],
                                       Len(tasks[@.task].steps), 0)]
            /\ UNCHANGED <<tasks, results>>
       ELSE ExceptClause(r, out)

\* await page.goto(task["target_url"])
RunGoto(r, out) ==
    /\ runs[r].pc = "goto"
    /\ IF out = "ok"
       THEN /\ runs' = [runs EXCEPT ![r] =
                          NextPos(@, Len(tasks[@.task].steps), 0)]
            /\ UNCHANGED <<tasks, results>>
       ELSE ExceptClause(r, out)

\* one iteration of `for step in task["steps"]`
RunStep(r, ans) ==
    /\ runs[r].pc = "step"
    /\ LET id   == runs[r].task
           i    == runs[r].i
           step == tasks[id].steps[i]
       IN /\ ans \in StepOutcomes(step)
          /\ IF ans.kind \notin {"raise", "raise_exit"}
             THEN /\ tasks' = [tasks EXCEPT ![id].steps[i] = StepEffect(step, ans)]
                  /\ runs' = [runs EXCEPT ![r] =
                                NextPos(Bind(@, step, ans), Len(tasks[id].steps), i)]
                  /\ UNCHANGED results
             ELSE ExceptClause(r, ans.kind)

\* a browser kept in one module-level variable instead of a local of the
\* coroutine: closing it closes it under every run that uses it
RunCloseSharedBrowser(r, out) ==
    /\ runs[r].pc = "close"
    /\ IF out = "ok"
       THEN /\ runs' = [q \in DOMAIN runs |->
                          IF q = r
                          THEN [runs[q] EXCEPT !.pc = "exit", !.browser = "closed"]
                          ELSE IF runs[q].browser = "open"
                          THEN [runs[q] EXCEPT !.browser = "closed"]
                          ELSE runs[q]]
            /\ results' = StoreSuccess(results, runs[r].task)
            /\ UNCHANGED tasks
       ELSE ExceptClause(r, out)

\* await browser.close(); results[task_id] = {"result": {"steps": ...}}
RunClose(r, out) ==
    /\ runs[r].pc = "close"
    /\ IF out = "ok"
       THEN /\ runs' = [runs EXCEPT ![r].pc = "exit", ![r].browser = "closed"]
            /\ results' = StoreSuccess(results, runs[r].task)
            /\ UNCHANGED tasks
       ELSE ExceptClause(r, out)

\* leaving `async with` after the result was stored
RunExit(r, out) ==
    /\ runs[r].pc = "exit"
    /\ out # "raise_exit"
    /\ IF out = "ok"
       THEN /\ runs' = [runs EXCEPT ![r] = Returned(@)]
            /\ UNCHANGED <<tasks, results>>
       ELSE ExceptClause(r, out)

\* ------------------------------------------------------------------ Next
\* the event loop resumes some coroutine
Resume ==
    \/ \E r \in DOMAIN runs, out \in Outcomes : RunStart(r, out)
    \/ \E r \in DOMAIN runs, out \in Outcomes : RunGoto(r, out)
    \/ \E r \in DOMAIN runs, ans \in StepAnswers : RunStep(r, ans)
    \/ \E r \in DOMAIN runs, out \in Outcomes : RunClose(r, out)
    \/ \E r \in DOMAIN runs, out \in Outcomes : RunExit(r, out)

Next ==
    \/ \E d \in Defs : create_task(d)
    \/ \E id \in CallerIds : execute_task(id)
    \/ \E id \in CallerIds : get_task(id)
    \/ \E id \in CallerIds : get_task_status(id)
    \/ \E id \in CallerIds : get_task_result(id)
    \/ Resume

Spec == Init /\ [][Next]_vars

\* The event loop does not idle while a coroutine's awaited call has answered.
FairSpec == Spec /\ WF_vars(Resume)

\* A run is active from the execute_task call that launched it until it has
\* written a terminal result into `results`.
Active(r) == runs[r].pc \notin {"exit", "done"}

RunsOf(id) == {r \in DOMAIN runs : runs[r].task = id}

\* Callers that execute a task only while no coroutine of it is alive: every
\* behaviour of SeqSpec is a behaviour of Spec in which the runs of one task
\* never overlap.
NextSeq ==
    \/ \E d \in Defs : create_task(d)
    \/ \E id \in CallerIds :
          /\ \A r \in RunsOf(id) : runs[r].pc = "done"
          /\ execute_task(id)
    \/ \E id \in CallerIds : get_task(id)
    \/ \E id \in CallerIds : get_task_status(id)
    \/ \E id \in CallerIds : get_task_result(id)
    \/ Resume

SeqSpec == Init /\ [][NextSeq]_vars

\* ================================================================ claims
\* C1: at most one run per task identifier is active at any time (an
\* execute_task on a task whose run is still active launches no second run).
C1_AtMostOneActiveRun ==
    \A r1, r2 \in DOMAIN runs :
        (r1 # r2 /\ runs[r1].task = runs[r2].task) => ~(Active(r1) /\ Active(r2))

\* C2: get_task_status on a registered task that was never executed returns
\* Pending.
C2_PendingBeforeExecute ==
    \A id \in DOMAIN tasks :
        RunsOf(id) = {} => StatusOf(tasks, results, id).status = "pending"

\* C3: whenever a run of a task is active, get_task_status reports Running
\* for that task, also when the task ran to a terminal state before.
C3_RunningWhileActive ==
    \A r \in DOMAIN runs :
        Active(r) => StatusOf(tasks, results, runs[r].task).status = "running"

\* C4: once a terminal result is stored for a task, what get_task_result
\* returns for it does not change.  Stated for the steps that write no entry
\* of `results`: there the stored result is still that of the same terminal
\* run, and get_task_result must return what it returned before.
C4_TerminalResultImmutable ==
    [][results' = results =>
         \A id \in DOMAIN results :
             TaskResultOf(tasks', results', id) = TaskResultOf(tasks, results, id)]_vars

Registered(ts) ==
    [id \in DOMAIN ts |->
        [name |-> ts[id].name, target_url |-> ts[id].target_url,
         steps |-> [j \in DOMAIN ts[id].steps |->
                       [type |-> ts[id].steps[j].type, by |-> ts[id].steps[j].by]]]]

C6_PartialResultsRetained ==
    [][\A r \in DOMAIN runs :
          (runs[r].pc = "step" /\ runs[r].i > 1 /\ runs'[r].pc = "done") =>
             LET id  == runs[r].task
                 res == TaskResultOf(tasks', results', id)
             IN  /\ res.status = "failed"
                 /\ res.error \in {StepError(tasks[id].steps[runs[r].i]),
                                   "playwright stop failed"}
                 /\ \A j \in 1..(runs[r].i - 1) :
                       tasks[id].steps[j].result # NoResult =>
                          /\ res.result.present
                          /\ res.result.steps[j].result = tasks[id].steps[j].result]_vars

\* index of the last extract-by-selector step of a step list, 0 if none
LastSelectorExtract(steps) ==
    LET S == {j \in DOMAIN steps :
                 steps[j].type = "extract" /\ steps[j].by = "selector"}
    IN  IF S = {} THEN 0 ELSE CHOOSE j \in S : \A k \in S : k <= j

\* run r stores its success result in this step
StoresSuccess(r) == runs[r].pc = "close" /\ runs'[r].pc = "exit"

\* C7: when a run whose steps all succeeded stores its result, the result is
\* Completed without error and carries a step result exactly for the steps
\* that produced one in this run: every screenshot, the (last) extract by
\* selector iff its query matched, and no navigate/click/type/select/wait.
C7_ExactlyThisRunsStepResults ==
    [][\A r \in DOMAIN runs :
          StoresSuccess(r) =>
             LET id    == runs[r].task
                 res   == TaskResultOf(tasks', results', id)
                 steps == res.result.steps
                 last  == LastSelectorExtract(tasks[id].steps)
             IN  /\ res.status = "completed"
                 /\ res.error = "None"
                 /\ res.result.present
                 /\ Len(steps) = Len(tasks[id].steps)
                 /\ \A j \in DOMAIN steps :
                       /\ steps[j].type = "screenshot" => steps[j].result # NoResult
                       /\ steps[j].type \notin {"screenshot", "extract"} =>
                             steps[j].result = NoResult
                       /\ j = last =>
                             (steps[j].result # NoResult <=> runs[r].element = "handle")]_vars

\* C8: an extract step that matched nothing does not fail the run, and the
\* result of the run that went on to store success reports no step result
\* for that extract step.
C8_NoMatchExtractIsEmpty ==
    [][\A r \in DOMAIN runs :
          (StoresSuccess(r) /\ runs[r].element = "None") =>
             LET id   == runs[r].task
                 last == LastSelectorExtract(tasks[id].steps)
             IN  TaskResultOf(tasks', results', id).result.steps[last].result = NoResult]_vars

\* C9: the progress get_task_status returns never decreases while no new run
\* is launched, and it is 1.0 only when no run of the task is active.
C9_ProgressMonotoneAndFullOnlyAtEnd ==
    /\ [](\A id \in DOMAIN tasks :
             StatusOf(tasks, results, id).progress = 100 =>
                \A r \in RunsOf(id) : ~Active(r))
    /\ [][\A id \in DOMAIN tasks :
             Len(runs') = Len(runs) =>
                StatusOf(tasks', results', id).progress
                   >= StatusOf(tasks, results, id).progress]_vars

\* run r ends in this step through the except clause: from any position
\* before the result is stored it can end no other way
Fails(r) == runs[r].pc \notin {"exit", "done"} /\ runs'[r].pc = "done"

C11_DefinitionImmutable ==
    [][\A id \in DOMAIN tasks : TaskOf(tasks', id) = TaskOf(tasks, id)]_vars

\* C12: for an identifier that was never registered, execute_task,
\* get_task_status and get_task_result answer 404 "task not found", no run of
\* it is ever launched and nothing is stored for it; get_task_result on a
\* registered task with no stored result answers the distinct error "results
\* not found"; the registries change only with a create_task or a step of a
\* coroutine.
C12_UnknownIdAndResultNotReady ==
    /\ [](\A id \in CallerIds :
            /\ id \notin DOMAIN tasks =>
                  /\ ExecuteResponse(tasks, id) = NotFound("execute", id, "task not found")
                  /\ StatusOf(tasks, results, id) = NotFound("status", id, "task not found")
                  /\ TaskResultOf(tasks, results, id) = NotFound("result", id, "task not found")
                  /\ RunsOf(id) = {}
                  /\ id \notin DOMAIN results
            /\ (id \in DOMAIN tasks /\ id \notin DOMAIN results) =>
                  TaskResultOf(tasks, results, id) =
                      NotFound("result", id, "results not found"))
    /\ [][Len(runs') > Len(runs) =>
             /\ runs'[Len(runs')].task \in DOMAIN tasks
             /\ tasks' = tasks /\ results' = results]_vars
    /\ [][(tasks' # tasks \/ results' # results) =>
             \/ Cardinality(DOMAIN tasks') = Cardinality(DOMAIN tasks) + 1
             \/ \E r \in DOMAIN runs : runs'[r] # runs[r]]_vars

\* C12 witness: a run of a registered task is under way with no result
\* stored yet, so get_task_result answers "results not found" for it and
\* "task not found" for the identifier that was never registered.
C12_Witness ==
    \E id \in DOMAIN tasks :
        /\ RunsOf(id) # {}
        /\ \E r \in RunsOf(id) : runs[r].pc = "step"
        /\ TaskResultOf(tasks, results, id).message = "results not found"
        /\ TaskResultOf(tasks, results, MaxTasks + 1).message = "task not found"

\* C13: the steps of a task run in definition order and one at a time: a
\* run moves from step i only to step i+1 (or to the close, or to its end),
\* and no two runs of the same task have a step in progress at once.
C13_StepsInOrderOneAtATime ==
    /\ [](\A r1, r2 \in DOMAIN runs :
            (r1 # r2 /\ runs[r1].task = runs[r2].task) =>
               ~(runs[r1].pc = "step" /\ runs[r2].pc = "step"))
    /\ [][\A r \in DOMAIN runs :
             (runs[r].pc = "step" /\ runs'[r] # runs[r]) =>
                \/ runs'[r].pc = "step" /\ runs'[r].i = runs[r].i + 1
                \/ runs'[r].pc = "close"
                      /\ runs[r].i = Len(tasks[runs[r].task].steps)
                \/ runs'[r].pc = "done"]_vars

Released(r) ==
    \/ runs'[r].browser = "closed"
    \/ /\ runs'[r].pc = "done"
       /\ results'[runs[r].task].error # "playwright stop failed"

\* C15: a run's browser is closed before its result is visible (a run that
\* has stored its success result holds a closed browser), and a run that
\* has acquired a browser gives it up only by releasing it, whatever the
\* provider calls answer.
C15_BrowserReleasedUnconditionally ==
    /\ [](\A r \in DOMAIN runs : runs[r].pc = "exit" => runs[r].browser = "closed")
    /\ [][\A r \in DOMAIN runs :
             (runs[r].browser = "open" /\ runs'[r].browser # "open") =>
                Released(r)]_vars

\* C16: browsers are not shared: a new coroutine holds none, a run gets its
\* browser only in its own session setup, every navigation, step and close
\* of a run acts while the run's own browser is open, and a step of one run
\* changes nothing of any other run, its browser included.
C16_SessionsNotShared ==
    /\ [](\A r \in DOMAIN runs :
            runs[r].pc \in {"goto", "step", "close"} => runs[r].browser = "open")
    /\ [][\A r \in DOMAIN runs :
             /\ runs'[r] # runs[r] =>
                   \A q \in DOMAIN runs \ {r} : runs'[q] = runs[q]
             /\ (runs[r].browser # "open" /\ runs'[r].browser = "open") =>
                   runs[r].pc = "start"]_vars
    /\ [][Len(runs') > Len(runs) => runs'[Len(runs')].browser = "none"]_vars

\* C16 witness: of two concurrent runs of the same task one has closed its
\* browser while the other is in a step with its own browser still open.
C16_Witness ==
    \E r, q \in DOMAIN runs :
        /\ r # q /\ runs[r].task = runs[q].task
        /\ runs[r].browser = "closed"
        /\ runs[q].pc = "step" /\ runs[q].browser = "open"

\* C17: task identifiers are unique: the registered identifiers are always
\* task_1 .. task_n, and every step that registers or alters a definition
\* adds exactly one entry, under an identifier that was not present, and
\* leaves the definitions registered before as they were.
C17_IdentifiersUnique ==
    /\ [](DOMAIN tasks = 1..Cardinality(DOMAIN tasks))
    /\ [][Registered(tasks') # Registered(tasks) =>
             \E id \in DOMAIN tasks' :
                /\ id \notin DOMAIN tasks
                /\ DOMAIN tasks' = DOMAIN tasks \cup {id}
                /\ Cardinality(DOMAIN tasks') = Cardinality(DOMAIN tasks) + 1
                /\ \A old \in DOMAIN tasks :
                      Registered(tasks')[old] = Registered(tasks)[old]]_vars

\* C17 witness: the same definition is registered twice, interleaved with a
\* run of the first registration that has stored a result, and both entries
\* exist.
C17_Witness ==
    /\ DOMAIN tasks = {1, 2}
    /\ Registered(tasks)[1] = Registered(tasks)[2]
    /\ 1 \in DOMAIN results
    /\ tasks[2] \in Defs

\* C18: a run writes results[task_id] once: after a run has stored its
\* success result, no later step of that run changes the entry, so Completed
\* is not turned into Failed by the same run.
C18_OneTerminalResultPerRun ==
    [][\A r \in DOMAIN runs :
          runs[r].pc = "exit" =>
             results'[runs[r].task] = results[runs[r].task]]_vars

\* C19: for every task with a stored result, get_task_status and
\* get_task_result report the same status, the stored entry carries a
\* result or an error but not both, and the status message of a failed task
\* is the error get_task_result returns.
C19_StatusAndResultAgree ==
    \A id \in DOMAIN results :
        LET st  == StatusOf(tasks, results, id)
            res == TaskResultOf(tasks, results, id)
        IN  /\ st.status \in {"completed", "failed"}
            /\ st.status = res.status
            /\ (results[id].result = "None") # (results[id].error = "None")
            /\ res.result.present <=> res.error = "None"
            /\ res.status = "completed" <=> res.result.present
            /\ st.status = "failed" => st.message = res.error

\* C19 witness: one task has a failed result and another a completed one.
C19_Witness ==
    \E id, id2 \in DOMAIN results :
        /\ StatusOf(tasks, results, id).status = "failed"
        /\ StatusOf(tasks, results, id).message = "extract failed"
        /\ TaskResultOf(tasks, results, id2).status = "completed"
====
